---- MODULE Spec2Model ----
(***************************************************************************)
(* Model of the Algorithm-of-Thought workflow                              *)
(* (backend/algorithm_of_thought.py, backend/config/aot_config.py), of the *)
(* persona consensus engine (backend/advanced_ai_engine.py), of the        *)
(* compliance verifier (backend/compliance_verifier.py), of the space      *)
(* mapper (backend/space_mapper.py), of the crosswalk traversal and the   *)
(* coordinate generation (backend/mapping_system.py), of the explainable   *)
(* query pipeline (backend/advanced_ai_engine.py) and of AoTStateMachine   *)
(* (backend/ai_compliance_system.py).  Each component has its own          *)
(* specification over the common initial state; concurrent and repeated    *)
(* process_query calls have specifications of their own.                   *)
(*                                                                         *)
(* Representation notes.                                                   *)
(*  - workflow_data["state_history"] is kept as the bag of the state names *)
(*    of its entries (timestamps and result summaries are dropped).  The   *)
(*    length of the list is the cardinality of the bag and the number of   *)
(*    entries of a state is its number of copies.  The order of the list   *)
(*    is not kept: with max_retries = 3 about 10^9 different lists are     *)
(*    reachable, against about 10^5 different bags.                        *)
(*  - a handler result is the record [ok, attempt]: whether the state      *)
(*    reported success, and which execution of the state produced it.      *)
(*  - AlgorithmOfThought._transition_state is called at                    *)
(*    algorithm_of_thought.py:132 but defined nowhere in the sources; it   *)
(*    is modelled from section 4.4 of the specification, together with the *)
(*    per-state retry counters of WorkflowContext.                         *)
(***************************************************************************)
EXTENDS Bags, FiniteSets, Integers, Sequences, TLC

\* ----------------------------------------------------------------------
\* backend/algorithm_of_thought.py, backend/config/aot_config.py
\* ----------------------------------------------------------------------

\* enum AIState, in declaration order
AIState ==
  << "query_parsing", "contextualization", "data_retrieval", "gap_analysis",
     "expert_reasoning", "compliance_check", "response_generation", "complete" >>

COMPLETE == "complete"

States == { AIState[i] : i \in 1..Len(AIState) }

NonTerminal == States \ {COMPLETE}

\* the table with response_generation failing back to the first state
rules_restart ==
  [ query_parsing       |-> [success |-> "contextualization",   failure |-> "response_generation"],
    contextualization   |-> [success |-> "data_retrieval",      failure |-> "query_parsing"],
    data_retrieval      |-> [success |-> "gap_analysis",        failure |-> "contextualization"],
    gap_analysis        |-> [success |-> "expert_reasoning",    failure |-> "data_retrieval"],
    expert_reasoning    |-> [success |-> "compliance_check",    failure |-> "gap_analysis"],
    compliance_check    |-> [success |-> "response_generation", failure |-> "expert_reasoning"],
    response_generation |-> [success |-> "complete",            failure |-> "query_parsing"] ]

\* the table with gap_analysis succeeding past expert_reasoning
rules_skip ==
  [ query_parsing       |-> [success |-> "contextualization",   failure |-> "response_generation"],
    contextualization   |-> [success |-> "data_retrieval",      failure |-> "query_parsing"],
    data_retrieval      |-> [success |-> "gap_analysis",        failure |-> "contextualization"],
    gap_analysis        |-> [success |-> "compliance_check",    failure |-> "data_retrieval"],
    expert_reasoning    |-> [success |-> "compliance_check",    failure |-> "gap_analysis"],
    compliance_check    |-> [success |-> "response_generation", failure |-> "expert_reasoning"],
    response_generation |-> [success |-> "complete",            failure |-> "expert_reasoning"] ]

\* the table with compliance_check failing forward
rules_forward ==
  [ query_parsing       |-> [success |-> "contextualization",   failure |-> "response_generation"],
    contextualization   |-> [success |-> "data_retrieval",      failure |-> "query_parsing"],
    data_retrieval      |-> [success |-> "gap_analysis",        failure |-> "contextualization"],
    gap_analysis        |-> [success |-> "expert_reasoning",    failure |-> "data_retrieval"],
    expert_reasoning    |-> [success |-> "compliance_check",    failure |-> "gap_analysis"],
    compliance_check    |-> [success |-> "response_generation", failure |-> "response_generation"],
    response_generation |-> [success |-> "complete",            failure |-> "expert_reasoning"] ]

\* AoT_CONFIG["state_transition_rules"]
state_transition_rules ==
  [ query_parsing       |-> [success |-> "contextualization",   failure |-> "response_generation"],
    contextualization   |-> [success |-> "data_retrieval",      failure |-> "query_parsing"],
    data_retrieval      |-> [success |-> "gap_analysis",        failure |-> "contextualization"],
    gap_analysis        |-> [success |-> "expert_reasoning",    failure |-> "data_retrieval"],
    expert_reasoning    |-> [success |-> "compliance_check",    failure |-> "gap_analysis"],
    compliance_check    |-> [success |-> "response_generation", failure |-> "expert_reasoning"],
    response_generation |-> [success |-> "complete",            failure |-> "expert_reasoning"] ]

\* one more retry than configured
max_retries_more == 3 + 1

\* AoT_CONFIG["max_retries"]
max_retries == 3

\* _execute_state lines 144-179 and _generate_response line 331: the
\* intermediate result read before the handler of state s starts its work;
\* workflow_data["query"] is always present, and a state without a branch
\* in _execute_state reads nothing
RequiredResult(s) ==
  CASE s = "contextualization"   -> "query_parsing"
    [] s = "data_retrieval"      -> "contextualization"
    [] s = "gap_analysis"        -> "data_retrieval"
    [] s = "expert_reasoning"    -> "gap_analysis"
    [] s = "compliance_check"    -> "expert_reasoning"
    [] s = "response_generation" -> "expert_reasoning"
    [] OTHER                     -> "query"

EmptyMap == [k \in {} |-> 0]

\* d[key] = value of a Python dict
DictSet(d, key, value) ==
  [k \in (DOMAIN d) \cup {key} |-> IF k = key THEN value ELSE d[k]]


\* ----------------------------------------------------------------------
\* backend/advanced_ai_engine.py: PersonaManager
\* ----------------------------------------------------------------------

\* Bounds of the model: the number of vocabulary terms in a query text and
\* in the values of a context dictionary
MaxQueryTerms == 2

MaxContextTerms == 1

\* PERSONA_CONFIG, in insertion order; consensus_weight is in tenths and
\* confidence_threshold in hundredths
PersonaOrder == << "legal", "financial", "compliance" >>

Personas == { PersonaOrder[i] : i \in 1..Len(PersonaOrder) }

PERSONA_CONFIG ==
  [ legal      |-> [ expertise |-> {"regulatory", "compliance", "legal_analysis"},
                     confidence_threshold |-> 75,
                     consensus_weight |-> 4 ],
    financial  |-> [ expertise |-> {"financial_analysis", "risk_assessment", "market_analysis"},
                     confidence_threshold |-> 80,
                     consensus_weight |-> 3 ],
    compliance |-> [ expertise |-> {"regulatory_compliance", "audit", "risk_management"},
                     confidence_threshold |-> 85,
                     consensus_weight |-> 3 ] ]

\* the words a query text or a context value is made of: the expertise
\* vocabulary of the personas and one word outside it
Terms ==
  UNION { PERSONA_CONFIG[p].expertise : p \in Personas } \cup {"gdpr"}

\* Python's "skill in text" for a text that is one term: substring test
IsSubstring(skill, term) ==
  \/ skill = term
  \/ term = "regulatory_compliance" /\ skill \in {"regulatory", "compliance"}

\* "skill.lower() in query.lower()" for a text made of the terms in text
InText(skill, text) == \E t \in text : IsSubstring(skill, t)

\* a query argument: a str made of the given terms (the empty string when
\* there are none), or a value of another type
StrQuery(terms) == [is_str |-> TRUE, terms |-> terms]

NotAString == [is_str |-> FALSE, terms |-> {}]

\* a context argument: a dict whose values are the given terms, or a value
\* of another type
DictContext(terms) == [is_dict |-> TRUE, terms |-> terms]

NotADict == [is_dict |-> FALSE, terms |-> {}]

\* analyze_with_personas lines 192-195 (and score_personas lines 285-288)
ValidInput(q, c) == q.is_str /\ q.terms # {} /\ c.is_dict

\* score_personas lines 290-300, in thirds: every persona has 3 skills
score_personas(q, c) ==
  [ p \in Personas |->
      Cardinality({ sk \in PERSONA_CONFIG[p].expertise : InText(sk, q.terms) })
      + Cardinality({ sk \in PERSONA_CONFIG[p].expertise : InText(sk, c.terms) }) ]

\* a threshold that every score passes
AboveThreshold_any(k) == k >= 0

\* "v > 0.3" for a score of k thirds
AboveThreshold(k) == 10 * k > 3 * 3

\* analyze_with_personas line 198: the relevant personas, in dict order
RelevantPersonas(sc) ==
  SelectSeq(PersonaOrder, LAMBDA p : AboveThreshold(sc[p]))

SeqToSet(q) == { q[i] : i \in 1..Len(q) }

RECURSIVE SumOver(_, _)
SumOver(f, S) ==
  IF S = {} THEN 0
  ELSE LET x == CHOOSE y \in S : TRUE IN f[x] + SumOver(f, S \ {x})

\* _combine_persona_results lines 240-241, in units of 1/30
TotalWeight(sc) ==
  SumOver([ p \in Personas |-> PERSONA_CONFIG[p].consensus_weight * sc[p] ],
          { p \in Personas : AboveThreshold(sc[p]) })

Min(a, b) == IF a < b THEN a ELSE b

\* _combine_persona_results lines 246-272: the loop over
\* zip(results, scores.items()), from pair i on.  acc is the combined
\* result so far; a result without "analysis" raises a KeyError (line 254).
\* Weights are kept as numerators over total_weight, the confidence as a
\* numerator over 10 * total_weight.
RECURSIVE CombineLoop(_, _, _, _)
CombineLoop(i, results, sc, acc) ==
  IF i > Min(Len(results), Len(PersonaOrder)) THEN acc
  ELSE LET persona_type == PersonaOrder[i]
           score == sc[persona_type]
           result == results[i]
           weight == PERSONA_CONFIG[persona_type].consensus_weight * score
       IN IF ~AboveThreshold(score) THEN CombineLoop(i + 1, results, sc, acc)
          ELSE IF result.kind # "ok" THEN [kind |-> "KeyError"]
          ELSE CombineLoop(i + 1, results, sc,
                 [ acc EXCEPT
                     !.persona_contributions = DictSet(@, persona_type, weight),
                     !.analysis = Append(@, [weight |-> weight, source |-> result.persona]),
                     !.confidence = @ + weight * result.confidence ])

\* a combination that does not test the total weight
combine_persona_results_unchecked(results, sc) ==
  IF results = << >> THEN [kind |-> "ValueError"]
  ELSE LET r == CombineLoop(1, results, sc,
                  [ kind |-> "consensus",
                    total_weight |-> TotalWeight(sc),
                    persona_contributions |-> EmptyMap,
                    analysis |-> << >>,
                    confidence |-> 0 ])
       IN IF r.kind = "KeyError" THEN [kind |-> "ProcessingError"] ELSE r

\* _combine_persona_results lines 225-280: the combined result, or the
\* exception raised
combine_persona_results(results, sc) ==
  IF results = << >> THEN [kind |-> "ValueError"]
  ELSE IF TotalWeight(sc) = 0 THEN [kind |-> "ValueError"]
  ELSE LET r == CombineLoop(1, results, sc,
                  [ kind |-> "consensus",
                    total_weight |-> TotalWeight(sc),
                    persona_contributions |-> EmptyMap,
                    analysis |-> << >>,
                    confidence |-> 0 ])
       IN IF r.kind = "KeyError" THEN [kind |-> "ProcessingError"] ELSE r

\* confidence values an analysis reports, in tenths
Confidences == {0, 10}

SettledStatus == {"ok", "degraded", "raised"}

VARIABLES
  state,                 \* AlgorithmOfThought.state (instance field)
  pc,                    \* position of the process_query coroutine
  error,                 \* exception leaving process_query, "none" if none
  executing,             \* state whose handler _execute_state is awaiting
  state_history,         \* workflow_data["state_history"], as a bag
  intermediate_results,  \* workflow_data["intermediate_results"]
  retries                \* WorkflowContext retry counter per state

aot_vars ==
  << state, pc, error, executing, state_history, intermediate_results,
     retries >>

VARIABLES
  personas,       \* PersonaManager.personas: instance loaded, last_used set
  pm_pc,          \* position of the analyze_with_personas coroutine
  query,          \* argument query: NotAString or the set of its terms
  context,        \* argument context: NotADict or the terms of its values
  scores,         \* local scores, in thirds
  tasks,          \* the _analyze_with_persona coroutines handed to gather
  pm_result       \* what analyze_with_personas returns or raises

pm_vars == << personas, pm_pc, query, context, scores, tasks, pm_result >>

VARIABLES
  combine_call,   \* a direct call of _combine_persona_results and its outcome
  verifier,       \* ComplianceVerifier: the arguments and results of a check
  mapped,         \* SpaceMapper.map_to_coordinates: metadata and outcome
  nearest,        \* SpaceMapper.find_nearest: store, query point and result
  crosswalks      \* MappingSystem.traverse_crosswalks: graph, call and result

ext_vars == << combine_call, verifier, mapped, nearest, crosswalks >>

VARIABLES
  generated,      \* MappingSystem.generate_coordinates: the number and outcome
  engine,         \* AdvancedAIEngine.process_advanced_query: locals and outcome
  queries,        \* the process_query coroutines sharing one AlgorithmOfThought
  machine         \* AoTStateMachine: current_state and data

ext2_vars == << generated, engine, queries, machine >>

vars == << aot_vars, pm_vars, ext_vars, ext2_vars >>

NoRetries == [s \in NonTerminal |-> 0]

\* no call of the operation has been made yet
NoCall == [pc |-> "idle"]

\* the two process_query coroutines of the concurrent specification,
\* before either is started
QueryIds == {1, 2}

NoQueries ==
  [ q \in QueryIds |->
      [ pc |-> "idle", executing |-> "none", state_history |-> << >>,
        intermediate_results |-> {} ] ]

\* AoTStateMachine.__init__, lines 163-165
NewMachine ==
  [ current_state |-> "QUERY_PARSING", data |-> EmptyMap, error |-> "none",
    last |-> [op |-> "init"] ]

\* AlgorithmOfThought.__init__
Init ==
  /\ state = "query_parsing"
  /\ pc = "idle"
  /\ error = "none"
  /\ executing = "none"
  /\ state_history = EmptyBag
  /\ intermediate_results = EmptyMap
  /\ retries = NoRetries
  /\ personas = [p \in Personas |-> [instance |-> FALSE, last_used |-> FALSE]]
  /\ pm_pc = "idle"
  /\ query = StrQuery({})
  /\ context = DictContext({})
  /\ scores = [p \in Personas |-> 0]
  /\ tasks = EmptyMap
  /\ pm_result = [kind |-> "none"]
  /\ combine_call = NoCall
  /\ verifier = NoCall
  /\ mapped = NoCall
  /\ nearest = NoCall
  /\ crosswalks = NoCall
  /\ generated = NoCall
  /\ engine = NoCall
  /\ queries = NoQueries
  /\ machine = NewMachine

\* process_query, lines 109-115: the call starts with a fresh workflow_data;
\* self.state is not assigned
ProcessQuery ==
  /\ pc = "idle"
  /\ pc' = "loop"
  /\ error' = "none"
  /\ executing' = "none"
  /\ state_history' = EmptyBag
  /\ intermediate_results' = EmptyMap
  /\ retries' = NoRetries
  /\ UNCHANGED << state, pm_vars, ext_vars, ext2_vars >>

\* a loop that never tests for COMPLETE
LoopContinues_always == TRUE

\* while self.state != AIState.COMPLETE
LoopContinues == state # COMPLETE

\* process_query line 117-119 and _execute_state: the loop test, the
\* dispatch on self.state and the lookup of the handler's argument; a
\* missing intermediate result is a KeyError, which leaves process_query
ExecuteState ==
  /\ pc = "loop"
  /\ LoopContinues
  /\ IF RequiredResult(state) = "query"
        \/ RequiredResult(state) \in DOMAIN intermediate_results
     THEN /\ pc' = "await"
          /\ executing' = state
          /\ error' = error
     ELSE /\ pc' = "raised"
          /\ error' = "KeyError"
          /\ executing' = executing
  /\ UNCHANGED << state, state_history, intermediate_results, retries, pm_vars, ext_vars, ext2_vars >>

\* process_query line 117 and 134: the loop ends and workflow_data is returned
Return ==
  /\ pc = "loop"
  /\ ~LoopContinues
  /\ pc' = "returned"
  /\ UNCHANGED << state, error, executing, state_history,
                  intermediate_results, retries, pm_vars, ext_vars, ext2_vars >>

\* number of entries of s in the state history
Visits(s) == CopiesIn(s, state_history)

\* _transition_state, on a failure result: the state after the transition
\* (section 4.4: the machine advances to the "failure" target)
FailureNext(s) == state_transition_rules[s].failure

\* _transition_state, on a success result
SuccessNext(s) == state_transition_rules[s].success

\* _transition_state: the retry counter of the failing state exceeds
\* max_retries once it has been incremented
RetriesExhausted(count) == count > max_retries

\* a history that logs each state once only
AppendHistory_once(history, s) ==
  IF CopiesIn(s, history) > 0 THEN history ELSE history (+) SetToBag({s})

\* process_query lines 125-129: workflow_data["state_history"].append(...)
AppendHistory(history, s) == history (+) SetToBag({s})

\* process_query line 122: intermediate_results[self.state.value] = result
StoreResult(results, s, result) == DictSet(results, s, result)

\* process_query lines 119-132, after the handler's await: the handler
\* returns a result (ok or not), which is stored under the current state's
\* name and logged in the history; then _transition_state moves the machine:
\* to the success target, or to the failure target after counting the
\* retry, or nowhere when the retries are exhausted or the state has no
\* transition rule
HandlerReturns(ok) ==
  /\ pc = "await"
  /\ LET s == state
         result == [ok |-> ok, attempt |-> Visits(s) + 1]
     IN /\ intermediate_results' = StoreResult(intermediate_results, s, result)
        /\ state_history' = AppendHistory(state_history, s)
        /\ IF s \notin DOMAIN state_transition_rules
           THEN /\ pc' = "raised"
                /\ error' = "KeyError"
                /\ UNCHANGED << state, retries >>
           ELSE IF ok
           THEN /\ state' = SuccessNext(s)
                /\ pc' = "loop"
                /\ UNCHANGED << retries, error >>
           ELSE /\ retries' = [retries EXCEPT ![s] = @ + 1]
                /\ IF RetriesExhausted(retries[s] + 1)
                   THEN /\ pc' = "raised"
                        /\ error' = "ProcessingError"
                        /\ state' = state
                   ELSE /\ pc' = "loop"
                        /\ error' = error
                        /\ state' = FailureNext(s)
  /\ executing' = "none"
  /\ UNCHANGED << pm_vars, ext_vars, ext2_vars >>

\* process_query lines 119 and 136-138: the handler raises; the exception is
\* logged and re-raised, nothing is stored and self.state is left as it is
HandlerRaises ==
  /\ pc = "await"
  /\ pc' = "raised"
  /\ error' = "HandlerError"
  /\ executing' = "none"
  /\ UNCHANGED << state, state_history, intermediate_results, retries, pm_vars, ext_vars, ext2_vars >>

Next ==
  \/ ProcessQuery
  \/ ExecuteState
  \/ \E ok \in BOOLEAN : HandlerReturns(ok)
  \/ HandlerRaises
  \/ Return

Spec == Init /\ [][Next]_vars


\* ----------------------------------------------------------------------
\* PersonaManager.analyze_with_personas
\* ----------------------------------------------------------------------

\* the texts of at most n terms
Texts(n) == { t \in SUBSET Terms : Cardinality(t) <= n }

QueryInputs == { StrQuery(t) : t \in Texts(MaxQueryTerms) } \cup {NotAString}

ContextInputs ==
  { DictContext(t) : t \in Texts(MaxContextTerms) } \cup {NotADict}

\* analyze_with_personas lines 191-207: validation, scoring, selection of
\* the relevant personas and creation of one coroutine per relevant persona
Analyze(q, c) ==
  /\ query' = q
  /\ context' = c
  /\ IF ~ValidInput(q, c)
     THEN /\ pm_pc' = "raised"
          /\ pm_result' = [kind |-> "ValueError"]
          /\ UNCHANGED << scores, tasks >>
     ELSE /\ scores' = score_personas(q, c)
          /\ IF RelevantPersonas(scores') = << >>
             THEN /\ pm_pc' = "returned"
                  /\ pm_result' = [kind |-> "empty_list"]
                  /\ tasks' = tasks
             ELSE /\ pm_pc' = "gather"
                  /\ pm_result' = pm_result
                  /\ tasks' = [ p \in SeqToSet(RelevantPersonas(scores')) |->
                                  [status |-> "pending", confidence |-> 0] ]
  /\ UNCHANGED << personas, aot_vars, ext_vars, ext2_vars >>

\* analyze_with_personas is called with some query and some context
AnalyzeWithPersonas ==
  /\ pm_pc = "idle"
  /\ \E q \in QueryInputs : \E c \in ContextInputs : Analyze(q, c)

\* _analyze_with_persona lines 313-320, up to the await: the lazy load of
\* the persona instance raises ImportError (re-raised as ProcessingError),
\* fails otherwise (caught, degraded result), or succeeds
TaskStarts(p, load) ==
  /\ pm_pc = "gather"
  /\ p \in DOMAIN tasks
  /\ tasks[p].status = "pending"
  /\ IF personas[p].instance \/ load = "loaded"
     THEN /\ tasks' = [tasks EXCEPT ![p].status = "running"]
          /\ personas' = [personas EXCEPT ![p].instance = TRUE]
     ELSE /\ tasks' = [tasks EXCEPT ![p].status =
                         IF load = "ImportError" THEN "raised" ELSE "degraded"]
          /\ personas' = personas
  /\ UNCHANGED << pm_pc, query, context, scores, pm_result, aot_vars, ext_vars, ext2_vars >>

\* _analyze_with_persona lines 320-328, after the await: analyze returns a
\* result, or raises and the exception is turned into a degraded result
TaskSettles(p, ok, conf) ==
  /\ pm_pc = "gather"
  /\ p \in DOMAIN tasks
  /\ tasks[p].status = "running"
  /\ IF ok
     THEN /\ tasks' = [tasks EXCEPT ![p] = [status |-> "ok", confidence |-> conf]]
          /\ personas' = [personas EXCEPT ![p].last_used = TRUE]
     ELSE /\ tasks' = [tasks EXCEPT ![p] = [status |-> "degraded", confidence |-> 0]]
          /\ personas' = personas
  /\ UNCHANGED << pm_pc, query, context, scores, pm_result, aot_vars, ext_vars, ext2_vars >>

\* a join that resumes at the first settled coroutine
GatherDone_first(t) == \E p \in DOMAIN t : t[p].status \in SettledStatus

\* asyncio.gather(*analysis_tasks, return_exceptions=True), line 209: the
\* await resumes when every coroutine has returned or raised
GatherDone(t) == \A p \in DOMAIN t : t[p].status \in SettledStatus

\* line 209: the results of gather, in the order of the coroutines; a
\* coroutine that raised contributes its exception
GatherResults(t, sc) ==
  LET order == SelectSeq(RelevantPersonas(sc),
                         LAMBDA p : t[p].status \in SettledStatus)
  IN [ i \in 1..Len(order) |->
         [ persona |-> order[i],
           kind |-> t[order[i]].status,
           confidence |-> t[order[i]].confidence ] ]

\* line 212: valid_results = [r for r in results if not isinstance(r, Exception)]
ValidResults(results) == SelectSeq(results, LAMBDA r : r.kind # "raised")

\* analyze_with_personas lines 209-223: the join, the filter, the
\* combination, and the translation of exceptions by the except clauses
Gather ==
  /\ pm_pc = "gather"
  /\ GatherDone(tasks)
  /\ LET valid_results == ValidResults(GatherResults(tasks, scores))
         combined == IF valid_results = << >>
                     THEN [kind |-> "ProcessingError"]
                     ELSE combine_persona_results(valid_results, scores)
     IN /\ pm_result' = combined
        /\ pm_pc' = IF combined.kind = "consensus" THEN "returned" ELSE "raised"
  /\ UNCHANGED << personas, query, context, scores, tasks, aot_vars, ext_vars, ext2_vars >>

NextPersona ==
  \/ AnalyzeWithPersonas
  \/ \E p \in Personas : \E load \in {"loaded", "ImportError", "Exception"} :
       TaskStarts(p, load)
  \/ \E p \in Personas : \E ok \in BOOLEAN : \E conf \in Confidences :
       TaskSettles(p, ok, conf)
  \/ Gather

SpecPersona == Init /\ [][NextPersona]_vars

\* ----------------------------------------------------------------------
\* PersonaManager._combine_persona_results, called on its own
\* ----------------------------------------------------------------------

\* Bounds of the model: the length of the results list and the largest
\* score (in thirds) of the scores dictionary passed to the function
MaxResults == 2

MaxDirectScore == 2

\* a persona's analysis result, or the degraded result of line 328
ResultValues ==
  { [persona |-> p, kind |-> "ok", confidence |-> c] :
       p \in Personas, c \in Confidences }
  \cup { [persona |-> p, kind |-> "degraded", confidence |-> 0] : p \in Personas }

ResultLists == UNION { [1..n -> ResultValues] : n \in 0..MaxResults }

ScoreDicts == [Personas -> 0..MaxDirectScore]

\* _combine_persona_results(results, scores), lines 225-280
CombineDirect(results, sc) ==
  /\ combine_call' = [ pc |-> "done",
                       results |-> results,
                       scores |-> sc,
                       outcome |-> combine_persona_results(results, sc) ]
  /\ UNCHANGED << aot_vars, pm_vars, verifier, mapped, nearest, crosswalks, ext2_vars >>

\* _combine_persona_results is called with some results and some scores
CombinePersonaResults ==
  /\ combine_call.pc = "idle"
  /\ \E results \in ResultLists : \E sc \in ScoreDicts : CombineDirect(results, sc)

NextCombine == CombinePersonaResults

SpecCombine == Init /\ [][NextCombine]_vars

\* ----------------------------------------------------------------------
\* backend/compliance_verifier.py: ComplianceVerifier
\* ----------------------------------------------------------------------

\* Bounds of the model: the number of regulations in the list given to
\* _check_compliance and in the list given to
\* _assess_comprehensive_compliance
MaxRegulations == 2

MaxRelated == 2

\* identifiers of regulatory items, requirement keys and attribute values
RegIds == {"R1", "R2", "R3"}

Keys == {"status", "license"}

Values == {"active", "inactive"}

\* a dict from some of the keys to values: an entity's attributes, or the
\* 'requirements' of a regulation ({} when the regulation declares none)
AttrDicts == UNION { [K -> Values] : K \in SUBSET Keys }

\* the lists of at most n items with pairwise different ids
ListsOf(items, n) ==
  UNION { { l \in [1..k -> items] :
              \A i \in 1..k : \A j \in 1..k : i # j => l[i].id # l[j].id } :
          k \in 0..n }

RegulationLists ==
  ListsOf({ [id |-> r, requirements |-> q] : r \in RegIds, q \in AttrDicts },
          MaxRegulations)

RelatedLists ==
  ListsOf({ [id |-> r, related_ids |-> rel] : r \in RegIds, rel \in SUBSET RegIds },
          MaxRelated)

\* a dict of compliance results: regulation id -> bool
ResultDicts == UNION { [S -> BOOLEAN] : S \in SUBSET RegIds }

\* entity.get(key): None when the entity has no such attribute
EntityGet(entity, key) ==
  IF key \in DOMAIN entity THEN entity[key] ELSE "None"

\* a verdict that one matching requirement is enough for
IsCompliant_any(entity, regulation) ==
  \E key \in DOMAIN regulation.requirements :
     EntityGet(entity, key) = regulation.requirements[key]

\* _check_compliance lines 62-65: all(entity.get(key) == value for key,
\* value in regulation.get('requirements', {}).items())
IsCompliant(entity, regulation) ==
  \A key \in DOMAIN regulation.requirements :
     EntityGet(entity, key) = regulation.requirements[key]

\* _check_compliance lines 60-67: the loop over the regulations, from item i
RECURSIVE CheckLoop(_, _, _, _)
CheckLoop(i, entity, regulations, compliance_results) ==
  IF i > Len(regulations) THEN compliance_results
  ELSE CheckLoop(i + 1, entity, regulations,
                 DictSet(compliance_results, regulations[i].id,
                         IsCompliant(entity, regulations[i])))

check_compliance(entity, regulations) ==
  CheckLoop(1, entity, regulations, EmptyMap)

\* initial_results.get(related_id, False)
ResultGet(initial_results, related_id) ==
  IF related_id \in DOMAIN initial_results THEN initial_results[related_id]
  ELSE FALSE

\* _assess_comprehensive_compliance lines 73-76: all(initial_results.get(
\* related_id, False) for related_id in regulation.get('related_ids', []))
RelatedCompliant(initial_results, regulation) ==
  \A related_id \in regulation.related_ids :
     ResultGet(initial_results, related_id)

\* a loop that stores the inferred verdict of every related regulation,
\* also of one that has a direct result
RECURSIVE AssessLoop_overwrite(_, _, _, _)
AssessLoop_overwrite(i, initial_results, related_regulations, comprehensive_results) ==
  IF i > Len(related_regulations) THEN comprehensive_results
  ELSE LET regulation == related_regulations[i]
       IN AssessLoop_overwrite(i + 1, initial_results, related_regulations,
            DictSet(comprehensive_results, regulation.id,
                    RelatedCompliant(initial_results, regulation)))

\* _assess_comprehensive_compliance lines 70-78: the loop over the related
\* regulations, from item i
RECURSIVE AssessLoop(_, _, _, _)
AssessLoop(i, initial_results, related_regulations, comprehensive_results) ==
  IF i > Len(related_regulations) THEN comprehensive_results
  ELSE LET regulation == related_regulations[i]
       IN AssessLoop(i + 1, initial_results, related_regulations,
            IF regulation.id \notin DOMAIN comprehensive_results
            THEN DictSet(comprehensive_results, regulation.id,
                         RelatedCompliant(initial_results, regulation))
            ELSE comprehensive_results)

assess_comprehensive_compliance(initial_results, related_regulations) ==
  AssessLoop(1, initial_results, related_regulations, initial_results)

\* _check_compliance(entity, regulations)
CheckCompliance ==
  /\ verifier.pc = "idle"
  /\ \E entity \in AttrDicts : \E regulations \in RegulationLists :
       verifier' = [ pc |-> "checked",
                     entity |-> entity,
                     regulations |-> regulations,
                     compliance_results |-> check_compliance(entity, regulations) ]
  /\ UNCHANGED << aot_vars, pm_vars, combine_call, mapped, nearest, crosswalks, ext2_vars >>

\* _assess_comprehensive_compliance(initial_results, related_regulations)
AssessComprehensiveCompliance ==
  /\ verifier.pc = "idle"
  /\ \E initial_results \in ResultDicts : \E related \in RelatedLists :
       verifier' = [ pc |-> "assessed",
                     initial_results |-> initial_results,
                     related_regulations |-> related,
                     comprehensive_results |->
                        assess_comprehensive_compliance(initial_results, related) ]
  /\ UNCHANGED << aot_vars, pm_vars, combine_call, mapped, nearest, crosswalks, ext2_vars >>

NextVerifier == CheckCompliance \/ AssessComprehensiveCompliance

SpecVerifier == Init /\ [][NextVerifier]_vars

\* ----------------------------------------------------------------------
\* backend/space_mapper.py: SpaceMapper
\* ----------------------------------------------------------------------

\* SpaceMapper.pillar_map and level_map, in tenths
pillar_map ==
  [ security |-> 10, privacy |-> 20, compliance |-> 30, governance |-> 40,
    risk |-> 50 ]

level_map ==
  [ basic |-> 10, intermediate |-> 20, advanced |-> 30, expert |-> 40 ]

\* values of a metadata field: the key is absent, or holds a str, None or
\* a number.  A str that float() parses carries the number it denotes, in
\* tenths, as does a number
Missing == [kind |-> "missing"]

NoneValue == [kind |-> "None"]

Str(text) == [kind |-> "str", text |-> text, parses |-> FALSE, tenths |-> 0]

NumStr(text, tenths) ==
  [kind |-> "str", text |-> text, parses |-> TRUE, tenths |-> tenths]

Num(tenths) == [kind |-> "number", tenths |-> tenths]

\* data.get(key, default)
DataGet(data, key, default) ==
  IF data[key] = Missing THEN default ELSE data[key]

\* str.lower() on the texts of the model
Lower(text) ==
  CASE text = "Privacy" -> "privacy"
    [] text = "EXPERT"  -> "expert"
    [] OTHER            -> text

\* map.get(text, default)
MapGet(map, text, default) ==
  IF text \in DOMAIN map THEN map[text] ELSE default

\* lines 77-78: z = float(section) / 10.0, clamped to [0, 1]; in hundredths
Clamp(tenths) ==
  IF tenths < 0 THEN 0 ELSE IF tenths > 100 THEN 100 ELSE tenths

\* map_to_coordinates lines 68-86: the coordinate (x, y, e in tenths, z in
\* hundredths), or the exception that leaves the function: .lower() of a
\* value that is no str is an AttributeError, float(None) a TypeError;
\* only ValueError is caught (line 79)
map_to_coordinates(data) ==
  LET domain == DataGet(data, "domain", Str(""))
      complexity == DataGet(data, "complexity", Str(""))
      section == DataGet(data, "section", NumStr("1.0", 10))
      expertise == DataGet(data, "expertise_required", Str("intermediate"))
  IN IF domain.kind # "str" THEN [kind |-> "AttributeError"]
     ELSE IF complexity.kind # "str" THEN [kind |-> "AttributeError"]
     ELSE IF section.kind = "None" THEN [kind |-> "TypeError"]
     ELSE IF expertise.kind # "str" THEN [kind |-> "AttributeError"]
     ELSE [ kind |-> "coordinates",
            x |-> MapGet(pillar_map, Lower(domain.text), 30),
            y |-> MapGet(level_map, Lower(complexity.text), 20),
            z |-> IF section.kind = "str" /\ ~section.parses THEN 50
                  ELSE Clamp(section.tenths),
            e |-> MapGet(level_map, Lower(expertise.text), 30) ]

\* the metadata dictionaries of the model
TextValues ==
  { Missing, NoneValue, Num(30), Str("security"), Str("Privacy"),
    Str("EXPERT"), Str("quantum") }

SectionValues ==
  { Missing, NoneValue, Num(70), NumStr("2.5", 25), NumStr("250", 2500),
    NumStr("-1", -10), Str("3.a") }

Metadata ==
  [ domain : TextValues, complexity : TextValues, section : SectionValues,
    expertise_required : TextValues ]

\* map_to_coordinates(data)
MapToCoordinates ==
  /\ mapped.pc = "idle"
  /\ \E data \in Metadata :
       mapped' = [ pc |-> "mapped", data |-> data,
                   result |-> map_to_coordinates(data) ]
  /\ UNCHANGED << aot_vars, pm_vars, combine_call, verifier, nearest, crosswalks, ext2_vars >>

\* map_to_coordinates called again with the same metadata
MapAgain ==
  /\ mapped.pc = "mapped"
  /\ mapped' = [ pc |-> "again", data |-> mapped.data,
                 result |-> mapped.result,
                 again |-> map_to_coordinates(mapped.data) ]
  /\ UNCHANGED << aot_vars, pm_vars, combine_call, verifier, nearest, crosswalks, ext2_vars >>

NextMap == MapToCoordinates \/ MapAgain

SpecMap == Init /\ [][NextMap]_vars

\* Bound of the model: the number of documents in the vector store
MaxDocs == 2

\* the points of the model, in tenths: a base point, its neighbour along
\* each of the four axes, a second point along the first axis, and a point
\* off three of the axes
Grid ==
  { [x |-> 10, y |-> 10, z |-> 0, e |-> 10],
    [x |-> 20, y |-> 10, z |-> 0, e |-> 10],
    [x |-> 30, y |-> 10, z |-> 0, e |-> 10],
    [x |-> 10, y |-> 20, z |-> 0, e |-> 10],
    [x |-> 10, y |-> 10, z |-> 5, e |-> 10],
    [x |-> 10, y |-> 10, z |-> 0, e |-> 20],
    [x |-> 20, y |-> 10, z |-> 5, e |-> 20] }

DocIds == 1..MaxDocs

\* what vector_store.get_all_documents() returns: documents with pairwise
\* different ids, in any order
DocLists ==
  ListsOf({ [id |-> i, coordinates |-> c] : i \in DocIds, c \in Grid }, MaxDocs)

\* config.get('max_results', 10)
MaxResultsConfigs == {1, 2, 10}

Sq(n) == n * n

\* a distance that ignores the expertise axis
distance_sq_xyz(a, b) ==
  Sq(a.x - b.x) + Sq(a.y - b.y) + Sq(a.z - b.z)

\* find_nearest lines 110-115: the square of the Euclidean distance.
\* math.sqrt is strictly increasing on the non-negative numbers, so a
\* distance is represented by its square: two distances are equal, or
\* ordered, as their squares are
distance_sq(a, b) ==
  Sq(a.x - b.x) + Sq(a.y - b.y) + Sq(a.z - b.z) + Sq(a.e - b.e)

\* lines 107-123: one result per document, in the order of the store
WithDistances(all_documents, coordinates) ==
  [ i \in 1..Len(all_documents) |->
      [ id |-> all_documents[i].id,
        coordinates |-> all_documents[i].coordinates,
        distance_sq |-> distance_sq(all_documents[i].coordinates, coordinates) ] ]

\* list.sort(key=distance) is stable: r goes behind every entry whose
\* distance is not larger
InsertByDistance(sorted, r) ==
  LET n == Cardinality({ i \in 1..Len(sorted) : sorted[i].distance_sq <= r.distance_sq })
  IN SubSeq(sorted, 1, n) \o << r >> \o SubSeq(sorted, n + 1, Len(sorted))

\* line 126: results.sort(key=lambda x: x['distance'])
RECURSIVE SortByDistance(_)
SortByDistance(results) ==
  IF results = << >> THEN << >>
  ELSE InsertByDistance(SortByDistance(SubSeq(results, 1, Len(results) - 1)),
                        results[Len(results)])

\* line 128: results[:max_results]
Slice(results, max_results) ==
  SubSeq(results, 1, Min(max_results, Len(results)))

\* find_nearest(coordinates), lines 101-128
FindNearest ==
  /\ nearest.pc = "idle"
  /\ \E coordinates \in Grid : \E all_documents \in DocLists :
     \E max_results \in MaxResultsConfigs :
       nearest' = [ pc |-> "done",
                    coordinates |-> coordinates,
                    all_documents |-> all_documents,
                    max_results |-> max_results,
                    results |-> Slice(SortByDistance(
                                  WithDistances(all_documents, coordinates)),
                                  max_results) ]
  /\ UNCHANGED << aot_vars, pm_vars, combine_call, verifier, mapped, crosswalks, ext2_vars >>

NextNearest == FindNearest

SpecNearest == Init /\ [][NextNearest]_vars

\* ----------------------------------------------------------------------
\* backend/mapping_system.py: MappingSystem.traverse_crosswalks
\* ----------------------------------------------------------------------

\* Bound of the model: the number of CROSSWALK relationships in the graph
MaxEdges == 3

\* the Regulation nodes of the graph, by NurembergNumber
Nodes == {"1.1.1.1", "1.1.1.2", "1.1.2.1"}

CrosswalkTypes == {"equivalent", "related"}

\* the CROSSWALK relationships that create_honeycomb_relationship can
\* create between the nodes
AllEdges ==
  { r \in [source : Nodes, target : Nodes, type : CrosswalkTypes] :
       r.source # r.target }

Graphs == { g \in SUBSET AllEdges : Cardinality(g) <= MaxEdges }

\* max_depth: the default of line 179, and a single hop
Depths == {1, 3}

\* the paths (lists of relationships) that extend path and match
\* -[:CROSSWALK*1..depth]->: a variable-length pattern binds a path of at
\* most depth relationships in which no relationship occurs twice; nodes
\* may occur more than once
RECURSIVE Trails(_, _, _)
Trails(graph, path, depth) ==
  {path} \cup
  ( IF Len(path) >= depth THEN {}
    ELSE UNION { Trails(graph, Append(path, rel), depth) :
                   rel \in { r \in graph :
                               /\ r.source = path[Len(path)].target
                               /\ r \notin SeqToSet(path) } } )

\* lines 186-191: the paths the query matches from the start node
MatchPaths(graph, start, depth, type) ==
  LET matched == UNION { Trails(graph, << rel >>, depth) :
                           rel \in { r \in graph : r.source = start } }
  IN { path \in matched :
         type = "NULL" \/ \A i \in 1..Len(path) : path[i].type = type }

\* lines 200-206: nodes and relationships of a path
PathRecord(path) ==
  [ nodes |-> << path[1].source >> \o [i \in 1..Len(path) |-> path[i].target],
    relationships |-> path ]

\* traverse_crosswalks(start_number, max_depth, crosswalk_type), lines
\* 184-212: the paths of the query's result, or the empty list when the
\* session or the query raises (lines 210-212)
TraverseCrosswalks ==
  /\ crosswalks.pc = "idle"
  /\ \E graph \in Graphs : \E start \in Nodes \cup {"9.9.9.9"} :
     \E depth \in Depths : \E type \in CrosswalkTypes \cup {"NULL"} :
     \E raises \in BOOLEAN :
       crosswalks' = [ pc |-> "done",
                       graph |-> graph,
                       start_number |-> start,
                       max_depth |-> depth,
                       crosswalk_type |-> type,
                       raised |-> raises,
                       paths |-> IF raises THEN {}
                                 ELSE { PathRecord(path) :
                                          path \in MatchPaths(graph, start, depth, type) } ]
  /\ UNCHANGED << aot_vars, pm_vars, combine_call, verifier, mapped, nearest, ext2_vars >>

NextCrosswalk == TraverseCrosswalks

SpecCrosswalk == Init /\ [][NextCrosswalk]_vars

\* ----------------------------------------------------------------------
\* MappingSystem.generate_coordinates (backend/mapping_system.py)
\* ----------------------------------------------------------------------

\* most dot-separated groups of a Nuremberg number that is tried
MaxGroups == 5

\* the groups a number is made of: integer literals, a signed one, a word
\* and the empty group (two dots in a row)
Groups == {"1", "3", "7", "-2", "x", ""}

\* the groups int() accepts, with their values
IntGroups == {"1", "3", "7", "-2"}

IntOf == ("1" :> 1) @@ ("3" :> 3) @@ ("7" :> 7) @@ ("-2" :> (0 - 2))

\* the groups that are digits only
DigitGroups == {"1", "3", "7"}

\* nuremberg_number.split('.'), line 42: the number is kept as its groups
NurembergNumbers ==
  UNION { [1..n -> Groups] : n \in 3..MaxGroups }

\* float(f"{parts[2]}.{parts[3]}"), line 49, in tenths: Python accepts an
\* optional sign, digits, a dot and digits, where either run of digits may
\* be empty but not both
FloatOK(a, b) ==
  /\ a \in IntGroups \cup {""}
  /\ b \in DigitGroups \cup {""}
  /\ ~(a = "" /\ b = "")

FloatTenths(a, b) ==
  LET whole == IF a = "" THEN 0 ELSE IntOf[a]
      frac  == IF b = "" THEN 0 ELSE IntOf[b]
  IN  IF whole < 0 THEN 10 * whole - frac ELSE 10 * whole + frac

\* self.expertise_mapping, lines 28-35
expertise_mapping ==
  ("Bachelors Degree" :> 1) @@ ("Masters Degree" :> 2) @@ ("PhD" :> 3) @@
  ("Certification Level 1" :> 4) @@ ("Certification Level 2" :> 5) @@
  ("5+ Years Experience" :> 6)

\* what the graph database answers for the number: no record, a record
\* with a RequiredExpertise, or an error of the session
DbAnswers ==
  {"no record", "db error", "unlisted expertise",
   "Bachelors Degree", "Certification Level 2", "5+ Years Experience"}

\* get_expertise_level, lines 58-77
get_expertise_level(answer) ==
  IF answer \in DOMAIN expertise_mapping THEN expertise_mapping[answer] ELSE 0

\* generate_coordinates, lines 37-56: any exception is caught and None is
\* returned
generate_coordinates(parts, answer) ==
  IF Len(parts) # 4 THEN NoneValue
  ELSE IF parts[1] \notin IntGroups \/ parts[2] \notin IntGroups THEN NoneValue
  ELSE IF ~FloatOK(parts[3], parts[4]) THEN NoneValue
  ELSE [ kind |-> "Coordinates4D",
         x |-> IntOf[parts[1]], y |-> IntOf[parts[2]],
         z |-> FloatTenths(parts[3], parts[4]),
         e |-> get_expertise_level(answer) ]

\* one call of generate_coordinates
GenerateCoordinates ==
  /\ generated.pc = "idle"
  /\ \E parts \in NurembergNumbers, answer \in DbAnswers :
       generated' = [ pc |-> "done", parts |-> parts, answer |-> answer,
                      result |-> generate_coordinates(parts, answer) ]
  /\ UNCHANGED << aot_vars, pm_vars, ext_vars, engine, queries, machine >>

NextGenerate == GenerateCoordinates

SpecGenerate == Init /\ [][NextGenerate]_vars

\* ----------------------------------------------------------------------
\* AdvancedAIEngine.process_advanced_query (backend/advanced_ai_engine.py)
\* ----------------------------------------------------------------------

\* an ExplanationNode of current_explanation.sub_steps: its step name and
\* the types of its evidence entries
SubStep(step, evidence) == [step |-> step, evidence |-> evidence]

\* what the coroutines of the relevant personas end as: a result, a
\* degraded result, or an exception
TaskOutcomes ==
  { [status |-> "ok", confidence |-> 10],
    [status |-> "degraded", confidence |-> 0],
    [status |-> "raised", confidence |-> 0] }

\* analyze_with_personas lines 189-223 as one call, t giving the outcome of
\* the coroutine of every relevant persona
analyze_with_personas(q, c, t) ==
  IF ~ValidInput(q, c) THEN [kind |-> "ValueError"]
  ELSE LET sc == score_personas(q, c)
           valid_results == ValidResults(GatherResults(t, sc))
       IN IF RelevantPersonas(sc) = << >> THEN [kind |-> "empty_list"]
          ELSE IF valid_results = << >> THEN [kind |-> "ProcessingError"]
          ELSE combine_persona_results(valid_results, sc)

\* a lower number of contributions below which validation is skipped
MinContributions_one == 2 - 1

\* _validate_results line 489: fewer contributions than this are not
\* validated
MinContributions == 2

\* _validate_results lines 507-521: np.average of the squared deviations
\* of the confidence thresholds from np.mean of the thresholds, weighted
\* by the contributions.  With n thresholds c_p (in hundredths) and
\* contributions w_p the value is
\*   sum w_p * (n * c_p - sum c)^2  /  (n^2 * sum w)     (in 1/10000)
confidence_variance(contributions) ==
  LET ps == DOMAIN contributions
      n  == Cardinality(ps)
      c  == [ p \in Personas |-> PERSONA_CONFIG[p].confidence_threshold ]
      mean_n == SumOver(c, ps)
      sq == [ p \in ps |-> contributions[p] * (n * c[p] - mean_n) * (n * c[p] - mean_n) ]
  IN [ num |-> SumOver(sq, ps), den |-> n * n * SumOver(contributions, ps) ]

\* _validate_results lines 475-562: the value returned (or the exception
\* raised) and the evidence left on the "Result Validation" sub-step.  Of
\* validation_metrics the confidence variance and the persona diversity
\* (in thirds) are kept; the two metrics that depend on the texts of the
\* recommendations are not.
validate_results(results) ==
  IF results.kind # "consensus"
  THEN [ kind |-> "ProcessingError", evidence |-> << >> ]
  ELSE IF Cardinality(DOMAIN results.persona_contributions) < MinContributions
  THEN [ kind |-> "results", results |-> results, has_metrics |-> FALSE,
         evidence |-> << "validation_warning" >> ]
  ELSE [ kind |-> "results", results |-> results, has_metrics |-> TRUE,
         validation_metrics |->
           [ confidence_variance |-> confidence_variance(results.persona_contributions),
             persona_diversity |-> Cardinality(DOMAIN results.persona_contributions) ],
         evidence |-> << "validation_metric", "validation_metric", "validation_metric" >> ]

\* process_advanced_query lines 388-403 and _parse_query lines 428-473: the
\* explanation tree is started and _parse_query runs on the query as
\* given.  It records its sub-step first; the tokenizer and the model then
\* return or raise (nlu), an exception ending the call as ProcessingError.
ParseQuery(q, c, nlu) ==
  engine' =
    [ pc |-> IF nlu = "ok" THEN "analyze" ELSE "raised",
      query |-> q, context |-> c,
      sub_steps |-> << SubStep("Natural Language Understanding",
                               IF nlu = "ok" THEN << "model_output" >> ELSE << >>) >>,
      parsed |-> nlu = "ok",
      scored |-> FALSE,
      persona_results |-> NoneValue,
      validated |-> NoneValue,
      error |-> IF nlu = "ok" THEN "none" ELSE "ProcessingError" ]

ProcessAdvancedQuery ==
  /\ engine.pc = "idle"
  /\ \E q \in QueryInputs : \E c \in ContextInputs : \E nlu \in {"ok", "raised"} :
       ParseQuery(q, c, nlu)
  /\ UNCHANGED << aot_vars, pm_vars, ext_vars, generated, queries, machine >>

\* process_advanced_query line 406: the persona analysis; every exception
\* is re-raised as ProcessingError by lines 424-426
EngineAnalyze ==
  /\ engine.pc = "analyze"
  /\ \E t \in [ SeqToSet(RelevantPersonas(score_personas(engine.query, engine.context)))
                  -> TaskOutcomes ] :
       LET r == analyze_with_personas(engine.query, engine.context, t)
           failed == r.kind \in {"ValueError", "ProcessingError"}
       IN engine' = [ engine EXCEPT
                        !.pc = IF failed THEN "raised" ELSE "validate",
                        !.scored = ValidInput(engine.query, engine.context),
                        !.persona_results = r,
                        !.error = IF failed THEN "ProcessingError" ELSE "none" ]
  /\ UNCHANGED << aot_vars, pm_vars, ext_vars, generated, queries, machine >>

\* process_advanced_query line 409: _validate_results
EngineValidate ==
  /\ engine.pc = "validate"
  /\ LET v == validate_results(engine.persona_results)
     IN engine' = [ engine EXCEPT
                      !.pc = IF v.kind = "results" THEN "respond" ELSE "raised",
                      !.sub_steps = Append(@, SubStep("Result Validation", v.evidence)),
                      !.validated = v,
                      !.error = IF v.kind = "results" THEN "none" ELSE "ProcessingError" ]
  /\ UNCHANGED << aot_vars, pm_vars, ext_vars, generated, queries, machine >>

\* process_advanced_query lines 412-422: _generate_explainable_response
\* records its sub-step, then formats and draws, which returns or raises
EngineRespond(ok) ==
  /\ engine.pc = "respond"
  /\ engine' = [ engine EXCEPT
                   !.pc = IF ok THEN "returned" ELSE "raised",
                   !.sub_steps = Append(@, SubStep("Response Generation",
                                   IF ok THEN << "response_summary" >> ELSE << >>)),
                   !.error = IF ok THEN "none" ELSE "ProcessingError" ]
  /\ UNCHANGED << aot_vars, pm_vars, ext_vars, generated, queries, machine >>

NextEngine ==
  \/ ProcessAdvancedQuery
  \/ EngineAnalyze
  \/ EngineValidate
  \/ \E ok \in BOOLEAN : EngineRespond(ok)

SpecEngine == Init /\ [][NextEngine]_vars

\* ----------------------------------------------------------------------
\* Two process_query calls running concurrently on one AlgorithmOfThought
\* (backend/algorithm_of_thought.py).  self.state is the one attribute of
\* the instance; workflow_data is local to each call.  A coroutine runs
\* until the await inside the handler it has called and is resumed when
\* the handler returns.  Every handler reports success.
\* ----------------------------------------------------------------------

\* process_query lines 117-119 for call q, with self.state = s and the
\* intermediate results known: the loop test, the dispatch of
\* _execute_state and the lookup of the handler's argument
EnterState(qrec, s) ==
  IF s = COMPLETE THEN [qrec EXCEPT !.pc = "returned", !.executing = "none"]
  ELSE IF RequiredResult(s) = "query"
          \/ RequiredResult(s) \in qrec.intermediate_results
  THEN [qrec EXCEPT !.pc = "await", !.executing = s]
  ELSE [qrec EXCEPT !.pc = "raised", !.executing = "none"]

\* process_query lines 109-119: call q starts with a fresh workflow_data
\* and runs into its first handler; self.state is not assigned
QueryStarts(q) ==
  /\ queries[q].pc = "idle"
  /\ queries' = [queries EXCEPT ![q] = EnterState(@, state)]
  /\ state' = state
  /\ UNCHANGED << pc, error, executing, state_history, intermediate_results,
                  retries, pm_vars, ext_vars, generated, engine, machine >>

\* process_query lines 119-132 and 117-119 for call q: its handler returns;
\* the result is stored and logged under self.state.value as it is now,
\* _transition_state moves self.state to the success target of that state,
\* and the loop runs into the next handler
QueryResumes(q) ==
  /\ queries[q].pc = "await"
  /\ LET s == state
         stored == [ queries[q] EXCEPT
                       !.intermediate_results = @ \cup {s},
                       !.state_history = Append(@, s) ]
     IN IF s \notin DOMAIN state_transition_rules
        THEN /\ queries' = [queries EXCEPT ![q] =
                              [stored EXCEPT !.pc = "raised", !.executing = "none"]]
             /\ state' = state
        ELSE /\ state' = SuccessNext(s)
             /\ queries' = [queries EXCEPT ![q] = EnterState(stored, SuccessNext(s))]
  /\ UNCHANGED << pc, error, executing, state_history, intermediate_results,
                  retries, pm_vars, ext_vars, generated, engine, machine >>

NextConcurrent == \E q \in QueryIds : QueryStarts(q) \/ QueryResumes(q)

SpecConcurrent == Init /\ [][NextConcurrent]_vars

\* ----------------------------------------------------------------------
\* process_query called again on the same AlgorithmOfThought
\* ----------------------------------------------------------------------

\* process_query lines 109-115, called after an earlier call has returned:
\* workflow_data is fresh; self.state is assigned in __init__ only (line
\* 98) and keeps the value the earlier call left
ProcessQueryAgain ==
  /\ pc = "returned"
  /\ pc' = "loop"
  /\ error' = "none"
  /\ executing' = "none"
  /\ state_history' = EmptyBag
  /\ intermediate_results' = EmptyMap
  /\ retries' = NoRetries
  /\ UNCHANGED << state, pm_vars, ext_vars, ext2_vars >>

NextReuse == Next \/ ProcessQueryAgain

SpecReuse == Init /\ [][NextReuse]_vars

\* ----------------------------------------------------------------------
\* AoTStateMachine (backend/ai_compliance_system.py)
\* ----------------------------------------------------------------------

\* self.states, lines 167-176
MachineStates ==
  { "QUERY_PARSING", "CONTEXTUALIZATION", "DATA_RETRIEVAL", "GAP_ANALYSIS",
    "EXPERT_REASONING", "COMPLIANCE_CHECK", "RESPONSE_GENERATION", "COMPLETE" }

\* names given to transition that are not in self.states
OtherNames == {"query_parsing", "DONE", ""}

\* the dicts given to transition
DataKeys == {"intent", "gaps"}

DataValues == {"a", "b"}

DataDicts == UNION { [K -> DataValues] : K \in SUBSET DataKeys }

\* self.data.update(data)
DictUpdate(d, data) ==
  [ k \in (DOMAIN d) \cup (DOMAIN data) |->
      IF k \in DOMAIN data THEN data[k] ELSE d[k] ]

\* a transition that does not look at self.states
transition_unchecked(m, new_state, data) ==
  [ current_state |-> new_state, data |-> DictUpdate(m.data, data),
    error |-> "none" ]

\* AoTStateMachine.transition, lines 180-188
transition(m, new_state, data) ==
  IF new_state \notin MachineStates
  THEN [m EXCEPT !.error = "ValueError"]
  ELSE [ current_state |-> new_state, data |-> DictUpdate(m.data, data),
         error |-> "none" ]

\* AoTStateMachine.reset, lines 196-201
reset(m) == [ current_state |-> "QUERY_PARSING", data |-> EmptyMap, error |-> "none" ]

\* AoTStateMachine.is_complete, lines 190-194
is_complete(m) == m.current_state = "COMPLETE"

\* one call of transition; the call is kept next to the machine
Transition ==
  \E new_state \in MachineStates \cup OtherNames : \E data \in DataDicts :
    /\ machine' = transition([ current_state |-> machine.current_state,
                               data |-> machine.data, error |-> machine.error ],
                             new_state, data)
                  @@ [ last |-> [op |-> "transition", new_state |-> new_state,
                                 data |-> data] ]
    /\ UNCHANGED << aot_vars, pm_vars, ext_vars, generated, engine, queries >>

\* one call of reset
Reset ==
  /\ machine' = reset(machine) @@ [ last |-> [op |-> "reset"] ]
  /\ UNCHANGED << aot_vars, pm_vars, ext_vars, generated, engine, queries >>

NextMachine == Transition \/ Reset

SpecMachine == Init /\ [][NextMachine]_vars

\* ----------------------------------------------------------------------
\* Properties of the workflow state machine
\* ----------------------------------------------------------------------

\* position of a state in the canonical order (1 = query_parsing)
CanonIndex(s) == CHOOSE i \in 1..Len(AIState) : AIState[i] = s

HistoryLen == BagCardinality(state_history)

\* the handler of the current state has just returned a failure result
FailedStep ==
  /\ pc = "await"
  /\ state_history' # state_history
  /\ state \in DOMAIN intermediate_results'
  /\ ~intermediate_results'[state].ok

\* the machine has left query processing
Terminated == pc \in {"returned", "raised"}

CanonPrefix(n) == { AIState[i] : i \in 1..n }

\* C3: as long as every executed state has succeeded, the history holds
\* exactly the first n states of the canonical order, once each, with one
\* intermediate result per state, and the machine stands at state n + 1;
\* so the seven states run in canonical order, once each, and the call
\* returns with the machine in COMPLETE
C3_CanonicalOrder ==
  (retries = NoRetries /\ pc # "idle") =>
     /\ HistoryLen \in 0..7
     /\ state_history = SetToBag(CanonPrefix(HistoryLen))
     /\ DOMAIN intermediate_results = CanonPrefix(HistoryLen)
     /\ \A s \in CanonPrefix(HistoryLen) :
           intermediate_results[s] = [ok |-> TRUE, attempt |-> 1]
     /\ state = AIState[HistoryLen + 1]
     /\ (pc = "returned" => HistoryLen = 7 /\ state = COMPLETE)
     /\ (pc = "raised" => error = "HandlerError")

C3_Witness ==
  /\ pc = "returned"
  /\ retries = NoRetries
  /\ state = COMPLETE
  /\ HistoryLen = 7

\* C4: a failure result increments the retry counter of the failing state;
\* up to max_retries = 3 the machine moves to the configured failure target
\* and goes on, beyond it the call ends with a fatal error; after a fatal
\* error no state is executed, and every call ends
C4_StepOK ==
  /\ FailedStep =>
       /\ retries' = [retries EXCEPT ![state] = @ + 1]
       /\ IF retries'[state] > 3
          THEN pc' = "raised" /\ error' = "ProcessingError" /\ state' = state
          ELSE pc' = "loop" /\ state' = state_transition_rules[state].failure
  /\ pc = "raised" => pc' = "raised" /\ state_history' = state_history

OnlyFailed(s, n) ==
  /\ retries[s] = n
  /\ \A t \in NonTerminal \ {s} : retries[t] = 0

C6_EveryFailureTargetEarlier ==
  state \in NonTerminal =>
     CanonIndex(state_transition_rules[state].failure) < CanonIndex(state)

\* C6 (amended): whatever non-terminal state but query_parsing the machine
\* is in, the configured failure target of that state is earlier in the
\* canonical order; query_parsing, which has no earlier state, fails
\* forward to response_generation
C6_FailureTargetEarlierButFirst ==
  /\ state \in NonTerminal \ {"query_parsing"} =>
        CanonIndex(state_transition_rules[state].failure) < CanonIndex(state)
  /\ state = "query_parsing" =>
        state_transition_rules[state].failure = "response_generation"

C6_Witness ==
  /\ pc = "loop"
  /\ OnlyFailed("compliance_check", 1)
  /\ state = "expert_reasoning"
  /\ ~intermediate_results["compliance_check"].ok

\* every step of the workflow is eventually taken
FairSpec == Spec /\ WF_vars(Next)

\* ----------------------------------------------------------------------
\* Properties of the persona consensus engine
\* ----------------------------------------------------------------------

\* analyze_with_personas has returned or raised
PmDone == pm_pc \in {"returned", "raised"}

\* the analysis of relevant persona p failed
AnalysisFailed(p) == tasks[p].status \in {"degraded", "raised"}

\* the sum of the values of persona_contributions, over total_weight
ContributionSum ==
  SumOver(pm_result.persona_contributions,
          DOMAIN pm_result.persona_contributions)

\* C7 (as stated): when the analysis of every relevant persona has failed,
\* analyze_with_personas raises a ProcessingError and produces no
\* consensus result
C7_AllFailedRaises ==
  ( /\ PmDone
    /\ DOMAIN tasks # {}
    /\ \A p \in DOMAIN tasks : AnalysisFailed(p) ) =>
       pm_pc = "raised" /\ pm_result.kind = "ProcessingError"

\* C8 (as stated): when the analysis of one relevant persona has succeeded
\* and that of another has failed with a degraded result (confidence 0),
\* analyze_with_personas returns a combined consensus result
C8_DegradedTolerated ==
  ( /\ PmDone
    /\ \E p \in DOMAIN tasks : tasks[p].status = "ok"
    /\ \E p \in DOMAIN tasks :
          tasks[p].status = "degraded" /\ tasks[p].confidence = 0 ) =>
       pm_pc = "returned" /\ pm_result.kind = "consensus"

\* C9: analyze_with_personas returns or raises only when every coroutine
\* handed to gather has settled
C9_JoinOnAll ==
  PmDone => \A p \in DOMAIN tasks : tasks[p].status \in SettledStatus

C9_Witness ==
  /\ pm_pc = "returned"
  /\ pm_result.kind = "consensus"
  /\ DOMAIN tasks = Personas
  /\ tasks["legal"].status = "ok"
  /\ tasks["financial"].status = "raised"
  /\ tasks["compliance"].status = "ok"

\* C10 (as stated): the persona contributions of a combined result sum to 1
C10_ContributionsSumToOne ==
  (pm_pc = "returned" /\ pm_result.kind = "consensus") =>
     ContributionSum = pm_result.total_weight

\* analyze_with_personas has returned a combined result
Combined == pm_pc = "returned" /\ pm_result.kind = "consensus"

\* every relevant persona's analysis returned a result
AllAnalysesOK == \A p \in DOMAIN tasks : tasks[p].status = "ok"

\* consensus_weight(p) * score(p), the numerator of p's normalized weight
OwnWeight(p) == PERSONA_CONFIG[p].consensus_weight * scores[p]

\* C11 (as stated): in a combined result every relevant persona p has the
\* contribution consensus_weight(p) * score(p) / total_weight, the total
\* being taken over the relevant personas, and it is p's own analysis that
\* is combined with that weight
C11_ContributionPerRelevantPersona ==
  (Combined /\ AllAnalysesOK) =>
     /\ pm_result.total_weight = SumOver([p \in Personas |-> OwnWeight(p)], DOMAIN tasks)
     /\ \A p \in DOMAIN tasks :
          /\ p \in DOMAIN pm_result.persona_contributions
          /\ pm_result.persona_contributions[p] = OwnWeight(p)
          /\ \E i \in 1..Len(pm_result.analysis) :
                pm_result.analysis[i] = [weight |-> OwnWeight(p), source |-> p]

\* the score of p, in thirds, is strictly greater than 0.3
ScoresAbove03(p) == 10 * scores[p] > 9

\* C13: a persona whose score is not above 0.3 gets no analysis coroutine,
\* its instance is never loaded or used, and it has no persona contribution;
\* once the query is accepted every persona scoring above 0.3 has its one
\* coroutine, which is never started a second time
C13_StateOK ==
  /\ \A p \in Personas :
       ~ScoresAbove03(p) =>
          /\ p \notin DOMAIN tasks
          /\ ~personas[p].instance
          /\ ~personas[p].last_used
  /\ (pm_pc # "idle" /\ ValidInput(query, context)) =>
        DOMAIN tasks = { p \in Personas : ScoresAbove03(p) }
  /\ Combined =>
        DOMAIN pm_result.persona_contributions \subseteq
           { p \in Personas : ScoresAbove03(p) }

C13_StartedOnce ==
  \A p \in DOMAIN tasks :
     /\ p \in DOMAIN tasks'
     /\ tasks[p].status # "pending" => tasks'[p].status # "pending"
     /\ tasks[p].status \in SettledStatus => tasks'[p] = tasks[p]

C13_OnlyAboveThreshold == [] C13_StateOK /\ [][C13_StartedOnce]_vars

C13_Witness ==
  /\ Combined
  /\ ~ScoresAbove03("financial")
  /\ DOMAIN tasks = {"legal", "compliance"}
  /\ personas["legal"].last_used
  /\ personas["compliance"].last_used
  /\ ~personas["financial"].instance

\* C14 (as stated): the combined confidence is the sum, over the personas
\* with a contribution, of the persona's normalized weight times the
\* confidence that persona's analysis reported, and lies in [0, 1]
C14_WeightedConfidence ==
  (Combined /\ AllAnalysesOK) =>
     /\ pm_result.confidence =
          SumOver([ p \in DOMAIN pm_result.persona_contributions |->
                      pm_result.persona_contributions[p] * tasks[p].confidence ],
                  DOMAIN pm_result.persona_contributions)
     /\ pm_result.confidence >= 0
     /\ pm_result.confidence <= 10 * pm_result.total_weight

\* C12: when the total of consensus_weight * score over the relevant
\* personas is zero, _combine_persona_results raises a ValueError: the
\* outcome is the exception alone, not a combined result (not even an empty
\* one) and not the ProcessingError a failure inside the weighting loop
\* (a division by zero, a missing key) would be turned into
C12_ZeroTotalRaises ==
  (combine_call.pc = "done" /\ TotalWeight(combine_call.scores) = 0) =>
     combine_call.outcome = [kind |-> "ValueError"]

C12_Witness ==
  /\ combine_call.pc = "done"
  /\ TotalWeight(combine_call.scores) = 0
  /\ Len(combine_call.results) = 2
  /\ combine_call.results[1].kind = "ok"
  /\ combine_call.outcome.kind = "ValueError"

\* ----------------------------------------------------------------------
\* Properties of the compliance verifier
\* ----------------------------------------------------------------------

C16_FailClosed ==
  verifier.pc = "assessed" =>
     \A i \in 1..Len(verifier.related_regulations) :
        LET item == verifier.related_regulations[i]
        IN item.id \notin DOMAIN verifier.initial_results =>
             verifier.comprehensive_results[item.id] =
               ( /\ item.related_ids # {}
                 /\ \A r \in item.related_ids :
                      /\ r \in DOMAIN verifier.initial_results
                      /\ verifier.initial_results[r] )

\* ----------------------------------------------------------------------
\* Properties of the space mapper
\* ----------------------------------------------------------------------

\* entry r comes before entry q in the order by distance, then by id
Before(r, q) ==
  \/ r.distance_sq < q.distance_sq
  \/ r.distance_sq = q.distance_sq /\ r.id < q.id

\* C17 (as stated): find_nearest returns min(k, corpus size) documents,
\* they are the ones nearest to the query point, and they are in ascending
\* order of distance with equal distances in ascending order of id,
\* whatever the order in which the store returned the documents
C17_NearestByDistanceThenId ==
  nearest.pc = "done" =>
     LET all == WithDistances(nearest.all_documents, nearest.coordinates)
         res == nearest.results
     IN /\ Len(res) = Min(nearest.max_results, Len(all))
        /\ \A i \in 1..Len(res) : \E j \in 1..Len(all) : res[i] = all[j]
        /\ \A i \in 1..Len(res) : \A j \in 1..Len(res) :
              i < j => Before(res[i], res[j])
        /\ \A j \in 1..Len(all) :
              (\A i \in 1..Len(res) : res[i] # all[j]) =>
                 \A i \in 1..Len(res) : Before(res[i], all[j])

\* sqrt(p) <= sqrt(q) + sqrt(r), for squares p, q, r of distances
LeqSum(p, q, r) ==
  \/ p <= q + r
  \/ Sq(p - q - r) <= 4 * q * r

\* C19: the distance find_nearest ranks by is a metric: for the query
\* point a and the points b, c of any two returned documents, the distance
\* recorded for b is that from a to b as well as from b to a, it is zero
\* exactly when b = a, and it is at most the distance recorded for c plus
\* the distance between c and b
C19_Metric ==
  nearest.pc = "done" =>
     LET a == nearest.coordinates
         res == nearest.results
     IN \A i \in 1..Len(res) : \A j \in 1..Len(res) :
          LET b == res[i].coordinates
              c == res[j].coordinates
          IN /\ res[i].distance_sq = distance_sq(a, b)
             /\ res[i].distance_sq = distance_sq(b, a)
             /\ (res[i].distance_sq = 0) <=> (b = a)
             /\ LeqSum(res[i].distance_sq, res[j].distance_sq, distance_sq(c, b))
             /\ LeqSum(distance_sq(c, b), res[j].distance_sq, res[i].distance_sq)

C19_Witness ==
  /\ nearest.pc = "done"
  /\ Len(nearest.results) = 2
  /\ nearest.coordinates = [x |-> 10, y |-> 10, z |-> 0, e |-> 10]
  /\ nearest.results[1].coordinates = [x |-> 10, y |-> 10, z |-> 0, e |-> 20]
  /\ nearest.results[2].coordinates = [x |-> 20, y |-> 10, z |-> 5, e |-> 20]
  /\ nearest.results[1].distance_sq = 100
  /\ nearest.results[2].distance_sq = 225

\* C20 (as stated): for any metadata map_to_coordinates returns a
\* coordinate, and a second call with the same metadata returns the same
\* coordinate
C20_TotalAndDeterministic ==
  /\ mapped.pc \in {"mapped", "again"} => mapped.result.kind = "coordinates"
  /\ mapped.pc = "again" => mapped.again = mapped.result

\* ----------------------------------------------------------------------
\* Properties of the crosswalk traversal
\* ----------------------------------------------------------------------

\* the expansions the traversal made: each way of reaching a node from
\* which a further relationship was followed
Expansions ==
  UNION { { SubSeq(p.nodes, 1, i) : i \in 1..Len(p.relationships) } :
          p \in crosswalks.paths }

\* C18 (as stated): the traversal ends with a finite result in which every
\* path has at most max_depth relationships, and no node is expanded twice:
\* any two expansions of the same node are the same visit of that node
C18_NoNodeExpandedTwice ==
  crosswalks.pc = "done" =>
     /\ IsFiniteSet(crosswalks.paths)
     /\ \A p \in crosswalks.paths : Len(p.relationships) <= crosswalks.max_depth
     /\ \A v \in Expansions : \A w \in Expansions :
          v[Len(v)] = w[Len(w)] => v = w

\* ----------------------------------------------------------------------
\* Properties of MappingSystem.generate_coordinates
\* ----------------------------------------------------------------------

\* the number is four dot-separated integer groups
FourIntegerGroups(parts) ==
  /\ Len(parts) = 4
  /\ \A i \in 1..4 : parts[i] \in IntGroups

\* pillar 1..5, level 1..4, branch 0.0..5.0 (in tenths), expertise 1..5
InRange(c) ==
  /\ c.x \in 1..5
  /\ c.y \in 1..4
  /\ c.z \in 0..50
  /\ c.e \in 1..5

\* C21: every coordinate generate_coordinates produces has its four fields
\* inside the legal ranges, and a Nuremberg number that is not four
\* dot-separated integer groups yields None.
C21_CoordinatesInRangeOrNone ==
  generated.pc = "done" =>
    /\ generated.result # NoneValue => InRange(generated.result)
    /\ ~FourIntegerGroups(generated.parts) => generated.result = NoneValue

\* ----------------------------------------------------------------------
\* Properties of AdvancedAIEngine.process_advanced_query
\* ----------------------------------------------------------------------

\* the call was given a malformed input
Malformed == ~ValidInput(engine.query, engine.context)

\* C22: a malformed input (empty or non-string query, non-dict context) is
\* rejected before any processing step runs: no query parsing is executed,
\* no explanation sub-step is recorded and no persona is scored.
C22_RejectedBeforeProcessing ==
  (engine.pc # "idle" /\ Malformed) =>
    /\ engine.sub_steps = << >>
    /\ ~engine.parsed
    /\ ~engine.scored

\* _validate_results has returned a result for a consensus
Validated ==
  /\ engine.pc \in {"respond", "returned", "raised"}
  /\ engine.validated.kind = "results"

\* the number of personas that contributed to the consensus
Contributors == Cardinality(DOMAIN engine.persona_results.persona_contributions)

WeightedVariance(contributions) ==
  LET ps == DOMAIN contributions
      c  == [ p \in Personas |-> PERSONA_CONFIG[p].confidence_threshold ]
      W  == SumOver(contributions, ps)
      M  == SumOver([ p \in ps |-> contributions[p] * c[p] ], ps)
      sq == [ p \in ps |-> contributions[p] * (W * c[p] - M) * (W * c[p] - M) ]
  IN [ num |-> SumOver(sq, ps), den |-> W * W * W ]

\* equality of two fractions
SameFraction(a, b) == a.num * b.den = b.num * a.den

\* C25: the confidence-variance metric is the weighted variance of the
\* contributing personas' confidence thresholds around their weighted
\* mean, the mean and the squared deviations both using the normalized
\* consensus weights.
C25_VarianceAroundWeightedMean ==
  (Validated /\ engine.validated.has_metrics) =>
    SameFraction(engine.validated.validation_metrics.confidence_variance,
                 WeightedVariance(engine.persona_results.persona_contributions))

\* ----------------------------------------------------------------------
\* Properties of the intermediate results of the workflow
\* ----------------------------------------------------------------------

\* no entry of the map is removed or replaced by the step
EntriesKept ==
  \A s \in DOMAIN intermediate_results :
    /\ s \in DOMAIN intermediate_results'
    /\ intermediate_results'[s] = intermediate_results[s]

\* C23: the intermediate-results map is append-only: once an entry for a
\* state has been stored it is never removed or replaced for the rest of
\* the query, also when a failure transition re-executes that state.
C23_AppendOnly == [][EntriesKept]_vars

\* C26: whenever process_query executes a state, the intermediate result
\* its handler reads (the preceding state's, for response_generation the
\* one of expert_reasoning) is already present, on every path the success
\* and failure targets allow.
C26_RequiredResultPresent ==
  (pc = "loop" /\ state # COMPLETE) =>
    \/ RequiredResult(state) = "query"
    \/ RequiredResult(state) \in DOMAIN intermediate_results

\* ----------------------------------------------------------------------
\* Properties of concurrent and of repeated process_query calls
\* ----------------------------------------------------------------------

\* the seven states before COMPLETE, in order
Canonical == SubSeq(AIState, 1, 7)

\* the history is the first states of the canonical sequence, in order
CanonicalPrefix(h) ==
  /\ Len(h) <= 7
  /\ \A i \in 1..Len(h) : h[i] = Canonical[i]

\* C27: when two queries are processed concurrently by one instance, the
\* state history of each is still the canonical sequence executed strictly
\* in order: the transitions of one query never make the other skip,
\* repeat or stop before a state.
C27_EachQueryCanonical ==
  \A q \in QueryIds :
    /\ CanonicalPrefix(queries[q].state_history)
    /\ queries[q].pc # "raised"
    /\ queries[q].pc = "returned" => queries[q].state_history = Canonical

\* C28: a process_query call on an instance, also one started after an
\* earlier call has completed, executes the states from QUERY_PARSING
\* through RESPONSE_GENERATION and returns a non-empty state history: a
\* call that has returned has executed the first and the last of them.
C28_EveryCallRunsTheWorkflow ==
  pc = "returned" =>
    /\ HistoryLen > 0
    /\ Visits("query_parsing") >= 1
    /\ Visits("response_generation") >= 1

\* ----------------------------------------------------------------------
\* Frame of ComplianceVerifier._assess_comprehensive_compliance
\* ----------------------------------------------------------------------

\* the list in the opposite order
Reverse(l) == [ i \in 1..Len(l) |-> l[Len(l) + 1 - i] ]

CallEffect ==
  LET call == machine'.last
  IN CASE call.op = "reset" ->
            /\ machine'.current_state = "QUERY_PARSING"
            /\ machine'.data = EmptyMap
       [] call.op = "transition" /\ call.new_state \notin MachineStates ->
            /\ machine'.error = "ValueError"
            /\ machine'.current_state = machine.current_state
            /\ machine'.data = machine.data
       [] call.op = "transition" /\ call.new_state \in MachineStates ->
            /\ machine'.error = "none"
            /\ machine'.current_state = call.new_state
            /\ DOMAIN machine'.data = (DOMAIN machine.data) \cup (DOMAIN call.data)
            /\ \A k \in DOMAIN machine'.data :
                 machine'.data[k] =
                   IF k \in DOMAIN call.data THEN call.data[k] ELSE machine.data[k]
       [] OTHER -> FALSE

\* C30: transition with a name that is not one of the eight workflow states
\* raises an error and leaves current_state and data unchanged; with a
\* valid name it sets current_state and merges the given data; after reset
\* the machine is in QUERY_PARSING with empty data whatever it was before.
C30_TransitionAndReset ==
  /\ [](machine.current_state \in MachineStates)
  /\ [][machine' # machine => CallEffect]_vars

C30_Witness ==
  /\ machine.last.op = "transition"
  /\ machine.last.new_state = "DONE"
  /\ machine.error = "ValueError"
  /\ machine.current_state = "COMPLETE"
  /\ machine.data = [intent |-> "a", gaps |-> "b"]

====
